---- MODULE Spec2Model ----
(***************************************************************************)
(* Model of claude-commands: the grouping validation of groupCommands      *)
(* (src/src/grouping-agent.ts), the MCP pattern validation of              *)
(* src/test-validation.ts, the keypress state machine of interactiveReview *)
(* (src/src/interactive-review.ts) with the reload of the file it saves,   *)
(* applyReviewFile (src/src/settings-manager.ts), and the collect and      *)
(* apply commands of src/src/cli.ts: the reply of the model parsed by      *)
(* groupCommands, collect followed by review, and the steps of apply.      *)
(*                                                                         *)
(* A JavaScript string is a sequence of one-character strings, so that     *)
(* startsWith, includes, split and the regular expressions are computed    *)
(* on the characters.  The fixed text of a template literal is kept as one *)
(* element per literal chunk; interpolated strings contribute their        *)
(* characters.                                                             *)
(***************************************************************************)
EXTENDS Integers, Sequences, FiniteSets, TLC

VARIABLES proposal, result, pc, mcpPattern, mcpResult, items, currentIndex, quit, savedFile,
          lastKey, before, reviewFile, userSettings, backups, added, lastCollectRun, history,
          loadedSettings

vars == <<proposal, result, pc, mcpPattern, mcpResult, items, currentIndex, quit, savedFile,
          lastKey, before, reviewFile, userSettings, backups, added, lastCollectRun, history,
          loadedSettings>>

\* the state of the review and of apply while another command of the CLI runs
NoKey == "none"
NoFile == [groupings |-> <<>>, ungrouped |-> <<>>]
NoSettings == [exists |-> FALSE, allow |-> <<>>]
NothingAdded == [addedPatterns |-> <<>>, addedCommands |-> <<>>]
reviewIdle ==
  /\ items = <<>>
  /\ currentIndex = 0
  /\ quit = FALSE
  /\ savedFile = NoFile
  /\ lastKey = NoKey
  /\ before = [items |-> <<>>, currentIndex |-> 0]
applyIdle ==
  /\ reviewFile = NoFile
  /\ userSettings = NoSettings
  /\ backups = <<>>
  /\ added = NothingAdded
  /\ lastCollectRun = "null"
  /\ history = <<>>
  /\ loadedSettings = NoSettings
reviewVars == <<items, currentIndex, quit, savedFile, lastKey, before>>
applyVars == <<reviewFile, userSettings, backups, added, lastCollectRun, history,
               loadedSettings>>

(***************************************************************************)
(* String primitives                                                       *)
(***************************************************************************)

\* s has sub at (1-based) position i
StartsWithAt(s, sub, i) ==
  /\ i >= 1
  /\ i + Len(sub) - 1 <= Len(s)
  /\ \A k \in 1..Len(sub) : s[i + k - 1] = sub[k]

\* String.prototype.startsWith
startsWith(s, sub) == StartsWithAt(s, sub, 1)

\* String.prototype.includes
includes(s, sub) == \E i \in 1..(Len(s) - Len(sub) + 1) : StartsWithAt(s, sub, i)

\* String.prototype.indexOf, 1-based; 0 when absent
indexOf(s, sub) ==
  IF includes(s, sub)
  THEN CHOOSE i \in 1..(Len(s) - Len(sub) + 1) :
         /\ StartsWithAt(s, sub, i)
         /\ \A j \in 1..(i - 1) : ~StartsWithAt(s, sub, j)
  ELSE 0

\* s.split(sep)[0] for a non-empty separator
splitFirst(s, sep) ==
  IF includes(s, sep) THEN SubSeq(s, 1, indexOf(s, sep) - 1) ELSE s

\* Array.prototype.includes on an array of strings
arrayIncludes(arr, s) == \E i \in 1..Len(arr) : arr[i] = s

\* \s and the line terminators that '.' does not match
Whitespace == {" ", "\t", "\n", "\r"}
LineTerminators == {"\n", "\r"}

\* The result of a failed String.prototype.match(...)?.[1]; a capture of
\* a '+' group is never empty, so the empty string stands for undefined.
NoMatch == <<>>

BashOpen == <<"B", "a", "s", "h", "(">>
WildcardSuffix == <<":", "*">>
WebFetchDomainPrefix ==
  <<"W", "e", "b", "F", "e", "t", "c", "h", "(", "d", "o", "m", "a", "i", "n", ":">>
McpPrefix == <<"m", "c", "p", "_", "_">>

\* the characters the capture [^:)]+ stops at
CaptureStop == {":", ")"}

\* the first position at or after i where "Bash(" is followed by a character
\* that the capture accepts; 0 when there is none
RECURSIVE FirstBashAt(_, _)
FirstBashAt(s, i) ==
  IF i + 5 > Len(s) THEN 0
  ELSE IF StartsWithAt(s, BashOpen, i) /\ s[i + 5] \notin CaptureStop THEN i
  ELSE FirstBashAt(s, i + 1)

\* the last position of the run of accepted characters that starts at j
RECURSIVE CaptureEnd(_, _)
CaptureEnd(s, j) ==
  IF j + 1 > Len(s) \/ s[j + 1] \in CaptureStop THEN j ELSE CaptureEnd(s, j + 1)

\* s.match(/Bash\(([^:)]+)/)?.[1]: the leftmost "Bash(" that is followed by
\* a character other than ':' and ')', and the longest run of such characters
BashCommandMatch(s) ==
  LET i == FirstBashAt(s, 1)
  IN IF i = 0 THEN NoMatch ELSE SubSeq(s, i + 5, CaptureEnd(s, i + 5))

(***************************************************************************)
(* NEVER_WILDCARD_PATTERNS and validateGrouping                            *)
(***************************************************************************)

\* A regular expression of the denylist: a literal, a literal followed by
\* \s+, or two literals separated by .*
Lit(a) == [kind |-> "literal", a |-> a, b |-> <<>>]
LitWs(a) == [kind |-> "literal-ws", a |-> a, b |-> <<>>]
LitAnyLit(a, b) == [kind |-> "literal-any-literal", a |-> a, b |-> b]

NEVER_WILDCARD_PATTERNS ==
  << LitWs(<<"r", "m">>),
     LitWs(<<"d", "e", "l">>),
     Lit(<<"-", "-", "f", "o", "r", "c", "e">>),
     Lit(<<"-", "-", "h", "a", "r", "d">>),
     Lit(<<"c", "h", "m", "o", "d">>),
     Lit(<<"c", "h", "o", "w", "n">>),
     Lit(<<"s", "u", "d", "o">>),
     Lit(<<"c", "u", "r", "l">>),
     Lit(<<"w", "g", "e", "t">>),
     Lit(<<"s", "y", "s", "t", "e", "m", "c", "t", "l">>),
     LitAnyLit(<<"k", "u", "b", "e", "c", "t", "l">>, <<"d", "e", "l", "e", "t", "e">>),
     LitAnyLit(<<"t", "e", "r", "r", "a", "f", "o", "r", "m">>,
               <<"d", "e", "s", "t", "r", "o", "y">>) >>

\* RegExp.prototype.test for the three shapes above
RegexTest(re, s) ==
  CASE re.kind = "literal" -> includes(s, re.a)
    [] re.kind = "literal-ws" ->
         \E i \in 1..Len(s) :
           /\ StartsWithAt(s, re.a, i)
           /\ i + Len(re.a) <= Len(s)
           /\ s[i + Len(re.a)] \in Whitespace
    [] re.kind = "literal-any-literal" ->
         \E i \in 1..Len(s) :
           /\ StartsWithAt(s, re.a, i)
           /\ \E j \in (i + Len(re.a))..Len(s) :
                /\ StartsWithAt(s, re.b, j)
                /\ \A k \in (i + Len(re.a))..(j - 1) : s[k] \notin LineTerminators

\* some entry of the denylist matches s
MatchesNeverWildcard(s) ==
  \E n \in 1..Len(NEVER_WILDCARD_PATTERNS) : RegexTest(NEVER_WILDCARD_PATTERNS[n], s)

\* mutant: only the executable, up to the first blank, is tested
validateGroupingExecutableOnly(pattern) ==
  LET command == BashCommandMatch(pattern)
      blanks == {k \in 1..Len(command) : command[k] \in Whitespace}
      executable == IF blanks = {} THEN command
                    ELSE SubSeq(command, 1, (CHOOSE k \in blanks : \A l \in blanks : k <= l) - 1)
  IN IF command = NoMatch THEN TRUE
     ELSE ~MatchesNeverWildcard(executable)

validateGrouping(pattern) ==
  LET command == BashCommandMatch(pattern)
  IN IF command = NoMatch THEN TRUE
     ELSE ~MatchesNeverWildcard(command)

(***************************************************************************)
(* validateGroupingLogic                                                   *)
(***************************************************************************)

NoReason == <<>>

\* the commands Set of Check 2: the captures of the matches, first
\* occurrence order, no duplicates, matches without a capture left out
RECURSIVE MatchCommands(_, _)
MatchCommands(matches, commands) ==
  IF matches = <<>> THEN commands
  ELSE LET matchCmd == BashCommandMatch(Head(matches))
       IN MatchCommands(Tail(matches),
                        IF matchCmd # NoMatch /\ ~arrayIncludes(commands, matchCmd)
                        THEN Append(commands, matchCmd)
                        ELSE commands)

\* Array.prototype.join(', ')
RECURSIVE joinComma(_)
joinComma(arr) ==
  IF arr = <<>> THEN <<>>
  ELSE IF Len(arr) = 1 THEN arr[1]
  ELSE arr[1] \o <<",", " ">> \o joinComma(Tail(arr))

\* an interpolated value that may be undefined
Interpolate(v) == IF v = NoMatch THEN <<"undefined">> ELSE v

\* Check 1: the pattern is one of its own matches (mutant: only the first
\* match is compared)
PatternInOwnMatchesFirstOnly(grouping) ==
  grouping.matches # <<>> /\ grouping.matches[1] = grouping.pattern

PatternInOwnMatches(grouping) == arrayIncludes(grouping.matches, grouping.pattern)

\* Check 1b: a WebFetch domain pattern with a '*' (mutant: the matches are
\* inspected instead of the pattern)
WebFetchWildcardInMatches(grouping) ==
  \E i \in 1..Len(grouping.matches) :
    /\ startsWith(grouping.matches[i], WebFetchDomainPrefix)
    /\ includes(grouping.matches[i], <<"*">>)

WebFetchWildcard(grouping) ==
  startsWith(grouping.pattern, WebFetchDomainPrefix) /\ includes(grouping.pattern, <<"*">>)

\* Check 2 applies to a pattern that starts with "Bash(" and includes ":*"
Check2Applies(pattern) == startsWith(pattern, BashOpen) /\ includes(pattern, WildcardSuffix)

\* Check 2, second half: the matches use more than one command, or a command
\* other than the pattern's (mutant: the size test is left out)
MixedCommandsNoSize(patternCmd, commands) ==
  patternCmd # NoMatch /\ Len(commands) > 0 /\ ~arrayIncludes(commands, patternCmd)

MixedCommands(patternCmd, commands) ==
  \/ Len(commands) > 1
  \/ patternCmd # NoMatch /\ Len(commands) > 0 /\ ~arrayIncludes(commands, patternCmd)

validateGroupingLogic(grouping) ==
  LET pattern == grouping.pattern
      matches == grouping.matches
      patternBase == splitFirst(pattern, WildcardSuffix)
      bad == {i \in 1..Len(matches) : ~startsWith(matches[i], patternBase)}
      firstBad == CHOOSE i \in bad : \A j \in bad : i <= j
      patternCmd == BashCommandMatch(pattern)
      commands == MatchCommands(matches, <<>>)
  IN IF PatternInOwnMatches(grouping)
     THEN [valid |-> FALSE,
           reason |-> <<"Pattern \"">> \o pattern
                      \o <<"\" appears in its own matches - redundant grouping">>]
     ELSE IF WebFetchWildcard(grouping)
     THEN [valid |-> FALSE,
           reason |-> <<"WebFetch doesn't support domain wildcards. Pattern \"">> \o pattern
                      \o <<"\" is invalid - domains must be explicit">>]
     ELSE IF Check2Applies(pattern) /\ bad # {}
     THEN [valid |-> FALSE,
           reason |-> <<"Match \"">> \o matches[firstBad]
                      \o <<"\" doesn't start with pattern base \"">> \o patternBase
                      \o <<"\"">>]
     ELSE IF Check2Applies(pattern) /\ MixedCommands(patternCmd, commands)
     THEN [valid |-> FALSE,
           reason |-> <<"Pattern \"">> \o Interpolate(patternCmd)
                      \o <<"\" but matches use different commands: ">>
                      \o joinComma(commands)]
     ELSE [valid |-> TRUE, reason |-> NoReason]

(***************************************************************************)
(* groupCommands: the validation of the parsed proposal                    *)
(***************************************************************************)

\* mutant: a blocked grouping is re-emitted as one command, its first match
BlockedUngroupedOnce(g) ==
  [i \in 1..(IF g.matches = <<>> THEN 0 ELSE 1) |->
     [command |-> g.matches[i],
      reasoning |-> <<"Blocked by safety validation: pattern \"">> \o g.pattern
                    \o <<"\" contains dangerous commands">>,
      shouldApprove |-> FALSE,
      safetyCategory |-> "NEVER_WILDCARD",
      approved |-> "null"]]

\* the UngroupedCommands pushed for a grouping that fails validateGrouping
BlockedUngrouped(g) ==
  [i \in 1..Len(g.matches) |->
     [command |-> g.matches[i],
      reasoning |-> <<"Blocked by safety validation: pattern \"">> \o g.pattern
                    \o <<"\" contains dangerous commands">>,
      shouldApprove |-> FALSE,
      safetyCategory |-> "NEVER_WILDCARD",
      approved |-> "null"]]

\* mutant: the rejection of the logic check marks the matches as the safety
\* check does
RejectedUngroupedAsBlocked(g, logicCheck) ==
  [i \in 1..Len(g.matches) |->
     [command |-> g.matches[i],
      reasoning |-> <<"Rejected grouping: ">> \o logicCheck.reason,
      shouldApprove |-> FALSE,
      safetyCategory |-> "NEVER_WILDCARD",
      approved |-> "null"]]

\* the UngroupedCommands pushed for a grouping that fails validateGroupingLogic
RejectedUngrouped(g, logicCheck) ==
  [i \in 1..Len(g.matches) |->
     [command |-> g.matches[i],
      reasoning |-> <<"Rejected grouping: ">> \o logicCheck.reason,
      shouldApprove |-> TRUE,
      safetyCategory |-> "SAFE_TO_WILDCARD",
      approved |-> "null"]]

\* mutant: the commands of a rejected grouping are put in front of the
\* ungrouped commands
RECURSIVE FilterGroupingsPrepending(_, _, _)
FilterGroupingsPrepending(gs, kept, ungrouped) ==
  IF gs = <<>> THEN [groupings |-> kept, ungrouped |-> ungrouped]
  ELSE LET g == Head(gs)
           logicCheck == validateGroupingLogic(g)
       IN IF ~validateGrouping(g.pattern)
          THEN FilterGroupingsPrepending(Tail(gs), kept, BlockedUngrouped(g) \o ungrouped)
          ELSE IF ~logicCheck.valid
          THEN FilterGroupingsPrepending(Tail(gs), kept,
                                         RejectedUngrouped(g, logicCheck) \o ungrouped)
          ELSE FilterGroupingsPrepending(Tail(gs), Append(kept, g), ungrouped)

\* result.groupings.filter(...) with its pushes to result.ungrouped
RECURSIVE FilterGroupings(_, _, _)
FilterGroupings(gs, kept, ungrouped) ==
  IF gs = <<>> THEN [groupings |-> kept, ungrouped |-> ungrouped]
  ELSE LET g == Head(gs)
           logicCheck == validateGroupingLogic(g)
       IN IF ~validateGrouping(g.pattern)
          THEN FilterGroupings(Tail(gs), kept, ungrouped \o BlockedUngrouped(g))
          ELSE IF ~logicCheck.valid
          THEN FilterGroupings(Tail(gs), kept, ungrouped \o RejectedUngrouped(g, logicCheck))
          ELSE FilterGroupings(Tail(gs), Append(kept, g), ungrouped)

\* mutant: the result is returned without the two maps that set approved
groupCommandsUnmapped(parsed) ==
  FilterGroupings(parsed.groupings, <<>>, parsed.ungrouped)

\* the value groupCommands returns for a parsed proposal
groupCommands(parsed) ==
  LET filtered == FilterGroupings(parsed.groupings, <<>>, parsed.ungrouped)
  IN [groupings |-> [i \in 1..Len(filtered.groupings) |->
                       [filtered.groupings[i] EXCEPT !.approved = "null"]],
      ungrouped |-> [i \in 1..Len(filtered.ungrouped) |->
                       [filtered.ungrouped[i] EXCEPT !.approved = "null"]]]

(***************************************************************************)
(* The proposals the external proposer may return                          *)
(***************************************************************************)

\* bounds of the proposal: groupings, matches over all groupings, ungrouped
MaxGroupings == 2
MaxMatches == 2
MaxUngrouped == 1

RmPattern == <<"B", "a", "s", "h", "(", "r", "m", ":", "*", ")">>
RmRfPattern == <<"B", "a", "s", "h", "(", "r", "m", " ", "-", "r", "f", ":", "*", ")">>
NpmRunPattern == <<"B", "a", "s", "h", "(", "n", "p", "m", " ", "r", "u", "n", ":", "*", ")">>
BunPattern == <<"B", "a", "s", "h", "(", "b", "u", "n", ":", "*", ")">>
WebFetchAnyPattern ==
  <<"W", "e", "b", "F", "e", "t", "c", "h", "(", "d", "o", "m", "a", "i", "n", ":", "*", ")">>
McpAnyPattern == <<"m", "c", "p", "_", "_", "*">>
BashAnyPattern == <<"B", "a", "s", "h", "(", ":", "*", ")">>

RmCmd ==
  <<"B", "a", "s", "h", "(", "r", "m", " ", "-", "r", "f", " ", "/", "t", "m", "p", "/", "x", ")">>
NpmRunTestCmd ==
  <<"B", "a", "s", "h", "(", "n", "p", "m", " ", "r", "u", "n", " ", "t", "e", "s", "t", ")">>
NpmRunBuildCmd ==
  <<"B", "a", "s", "h", "(", "n", "p", "m", " ", "r", "u", "n", " ", "b", "u", "i", "l", "d", ")">>
BunInstallCmd ==
  <<"B", "a", "s", "h", "(", "b", "u", "n", " ", "i", "n", "s", "t", "a", "l", "l", ")">>
BunxCreateCmd ==
  <<"B", "a", "s", "h", "(", "b", "u", "n", "x", " ", "c", "r", "e", "a", "t", "e", ")">>
\* a literal command, also proposed as a pattern without a wildcard
NpmRunCmd == <<"B", "a", "s", "h", "(", "n", "p", "m", " ", "r", "u", "n", ")">>
GithubCmd ==
  <<"W", "e", "b", "F", "e", "t", "c", "h", "(", "d", "o", "m", "a", "i", "n", ":",
    "g", "i", "t", "h", "u", "b", ".", "c", "o", "m", ")">>

Patterns ==
  {RmPattern, RmRfPattern, NpmRunPattern, BunPattern, WebFetchAnyPattern, McpAnyPattern,
   NpmRunCmd, BashAnyPattern}

Commands == {RmCmd, NpmRunTestCmd, NpmRunBuildCmd, BunInstallCmd, BunxCreateCmd, NpmRunCmd}

\* a proposal of one grouping draws on all patterns and commands; a proposal of
\* several groupings on these
FewPatterns == {RmRfPattern, NpmRunPattern, BunPattern}
FewCommands == {RmCmd, NpmRunCmd, BunInstallCmd}

\* a proposed grouping; the proposer does not set approved
ProposedGrouping(pattern, matches) ==
  [pattern |-> pattern, matches |-> matches, reasoning |-> <<"proposed">>,
   confidence |-> "high", safetyCategory |-> "SAFE_TO_WILDCARD", approved |-> "undefined"]

ProposedUngrouped ==
  {[command |-> GithubCmd, reasoning |-> <<"proposed">>, shouldApprove |-> TRUE,
    safetyCategory |-> "SAFE_TO_WILDCARD", approved |-> "true"]}

\* the non-decreasing cut points that split t matches among k groupings
Cuts(k, t) ==
  {c \in [1..k -> 0..t] : /\ c[k] = t
                           /\ \A i \in 1..(k - 1) : c[i] <= c[i + 1]}

\* the groupings array of k patterns and the matches flat split at the cuts c
GroupingsOf(k, ps, flat, c) ==
  [i \in 1..k |->
     ProposedGrouping(ps[i], SubSeq(flat, (IF i = 1 THEN 0 ELSE c[i - 1]) + 1, c[i]))]

NotRun == [groupings |-> <<>>, ungrouped |-> <<>>]
NotValidated == [valid |-> TRUE, reason |-> <<>>]

(***************************************************************************)
(* Validation: the proposer's reply is parsed, then groupCommands runs     *)
(***************************************************************************)

InitValidate ==
  /\ \E k \in 0..MaxGroupings : \E t \in 0..MaxMatches : \E n \in 0..MaxUngrouped :
       /\ k = 0 => t = 0
       /\ \E ps \in [1..k -> IF k = 1 THEN Patterns ELSE FewPatterns] :
          \E flat \in [1..t -> IF k = 1 THEN Commands ELSE FewCommands] :
          \E c \in (IF k = 0 THEN {<<>>} ELSE Cuts(k, t)) :
          \E us \in [1..n -> ProposedUngrouped] :
            proposal = [groupings |-> GroupingsOf(k, ps, flat, c), ungrouped |-> us]
  /\ result = NotRun
  /\ pc = "parsed"
  /\ mcpPattern = <<>>
  /\ mcpResult = NotValidated
  /\ reviewIdle
  /\ applyIdle

GroupCommands ==
  /\ pc = "parsed"
  /\ result' = groupCommands(proposal)
  /\ pc' = "returned"
  /\ UNCHANGED <<proposal, mcpPattern, mcpResult, reviewVars, applyVars>>

NextValidate == GroupCommands

SpecValidate == InitValidate /\ [][NextValidate]_vars

(***************************************************************************)
(* validateMCPGrouping (src/test-validation.ts)                            *)
(***************************************************************************)

LowerCase ==
  {"a", "b", "c", "d", "e", "f", "g", "h", "i", "j", "k", "l", "m",
   "n", "o", "p", "q", "r", "s", "t", "u", "v", "w", "x", "y", "z"}
UpperCase ==
  {"A", "B", "C", "D", "E", "F", "G", "H", "I", "J", "K", "L", "M",
   "N", "O", "P", "Q", "R", "S", "T", "U", "V", "W", "X", "Y", "Z"}
Digits == {"0", "1", "2", "3", "4", "5", "6", "7", "8", "9"}

\* the character class [a-zA-Z0-9-_]
McpClass == LowerCase \cup UpperCase \cup Digits \cup {"-", "_"}

\* s[from..to] is a non-empty run of class characters
ClassRun(s, from, to) == from <= to /\ \A k \in from..to : s[k] \in McpClass

\* mutant: the expression is not anchored at the end
mcpServerPatternUnanchored(s) ==
  startsWith(s, McpPrefix) /\ Len(s) > 5 /\ s[6] \in McpClass

\* /^mcp__[a-zA-Z0-9-_]+$/.test(s)
mcpServerPattern(s) == startsWith(s, McpPrefix) /\ ClassRun(s, 6, Len(s))

\* /^mcp__[a-zA-Z0-9-_]+__[a-zA-Z0-9-_]+$/.test(s)
mcpCommandPattern(s) ==
  /\ startsWith(s, McpPrefix)
  /\ \E i \in 6..Len(s) :
       /\ ClassRun(s, 6, i)
       /\ StartsWithAt(s, <<"_", "_">>, i + 1)
       /\ ClassRun(s, i + 3, Len(s))

validateMCPGrouping(pattern) ==
  IF ~startsWith(pattern, McpPrefix)
  THEN [valid |-> TRUE, reason |-> NoReason]
  ELSE IF includes(pattern, <<"*">>)
  THEN [valid |-> FALSE,
        reason |-> <<"MCP patterns cannot use wildcards. Use exact pattern like \"mcp__servername\"">>]
  ELSE IF pattern = <<"m", "c", "p", "_", "_", "*">> \/ pattern = <<"m", "c", "p", "_", "_", ":", "*">>
  THEN [valid |-> FALSE, reason |-> <<"mcp__* is too broad - must specify server name">>]
  ELSE IF ~mcpServerPattern(pattern) /\ ~mcpCommandPattern(pattern)
  THEN [valid |-> FALSE,
        reason |-> <<"Invalid MCP pattern format. Expected \"mcp__servername\" or \"mcp__servername__commandname\", got \"">>
                   \o pattern \o <<"\"">>]
  ELSE [valid |-> TRUE, reason |-> NoReason]

\* the patterns and expectations of testPatterns
McpPlaywright ==
  <<"m", "c", "p", "_", "_", "p", "l", "a", "y", "w", "r", "i", "g", "h", "t">>
testPatterns ==
  << [pattern |-> McpPlaywright, expected |-> TRUE],
     [pattern |-> <<"m", "c", "p", "_", "_", "c", "o", "n", "t", "e", "x", "t", "7">>,
      expected |-> TRUE],
     [pattern |-> McpPlaywright \o <<"_", "_", "n", "a", "v", "i", "g", "a", "t", "e">>,
      expected |-> TRUE],
     [pattern |-> McpPlaywright \o <<":", "*">>, expected |-> FALSE],
     [pattern |-> McpPlaywright \o <<"_", "_", "*">>, expected |-> FALSE],
     [pattern |-> <<"m", "c", "p", "_", "_", "*">>, expected |-> FALSE],
     [pattern |-> <<"m", "c", "p", "_", "_", ":", "*">>, expected |-> FALSE],
     [pattern |-> NpmRunPattern, expected |-> TRUE],
     [pattern |-> GithubCmd, expected |-> TRUE] >>

\* bound of the generated inputs: characters after the prefix
MaxSuffix == 3

McpAlphabet == {"a", "Z", "7", "-", "_", "*", ":"}
McpPrefixes == {<<>>, McpPrefix, <<"m", "c", "p", "_">>, BashOpen}

InitMCP ==
  /\ \/ \E t \in 1..Len(testPatterns) : mcpPattern = testPatterns[t].pattern
     \/ \E pre \in McpPrefixes : \E n \in 0..MaxSuffix : \E suf \in [1..n -> McpAlphabet] :
          mcpPattern = pre \o suf
  /\ mcpResult = NotValidated
  /\ pc = "pattern"
  /\ proposal = [groupings |-> <<>>, ungrouped |-> <<>>]
  /\ result = NotRun
  /\ reviewIdle
  /\ applyIdle

ValidateMCP ==
  /\ pc = "pattern"
  /\ mcpResult' = validateMCPGrouping(mcpPattern)
  /\ pc' = "validated"
  /\ UNCHANGED <<proposal, result, mcpPattern, reviewVars, applyVars>>

NextMCP == ValidateMCP

SpecMCP == InitMCP /\ [][NextMCP]_vars

(***************************************************************************)
(* interactiveReview: the keypress handler and cleanup                     *)
(***************************************************************************)

\* bound of the review queue
MaxItems == 3

\* Grouping.groupType is optional
GroupTypes == {"mcp-server", "standard", "undefined"}

\* a grouping / an ungrouped command of a review file written by collect:
\* approved is null and no mcpChoice is set
FreshGrouping(groupType) ==
  [type |-> "grouping", groupType |-> groupType, approved |-> "null", mcpChoice |-> "undefined"]
FreshUngrouped ==
  [type |-> "ungrouped", groupType |-> "undefined", approved |-> "null",
   mcpChoice |-> "undefined"]

\* a ReviewItem: the entry of the review file with its type and its index in
\* its array
ReviewItem(entry, index) ==
  [type |-> entry.type, index |-> index, groupType |-> entry.groupType,
   approved |-> entry.approved, mcpChoice |-> entry.mcpChoice]

\* items.filter(item => item.type === t).map(item => item.data)
ItemsOfType(its, t) == SelectSeq(its, LAMBDA item : item.type = t)

\* the review file cleanup writes
UpdatedFile(its) ==
  [groupings |-> ItemsOfType(its, "grouping"), ungrouped |-> ItemsOfType(its, "ungrouped")]

\* items = [...reviewFile.groupings.map(...), ...reviewFile.ungrouped.map(...)]
InitReview ==
  /\ \E n \in 0..MaxItems : \E g \in 0..n : \E gt \in [1..g -> GroupTypes] :
       items = [i \in 1..n |-> IF i <= g THEN ReviewItem(FreshGrouping(gt[i]), i - 1)
                                         ELSE ReviewItem(FreshUngrouped, i - g - 1)]
  /\ savedFile = UpdatedFile(items)
  /\ currentIndex = 0
  /\ quit = FALSE
  /\ lastKey = NoKey
  /\ before = [items |-> items, currentIndex |-> 0]
  /\ pc = IF items = <<>> THEN "noItems" ELSE "listening"
  /\ proposal = [groupings |-> <<>>, ungrouped |-> <<>>]
  /\ result = NotRun
  /\ mcpPattern = <<>>
  /\ mcpResult = NotValidated
  /\ applyIdle

currentItem == items[currentIndex + 1]
isMCPGrouping == currentItem.type = "grouping" /\ currentItem.groupType = "mcp-server"

\* mutant: the cursor advances without the test for the last item
AdvanceUnclamped(i) == i + 1

\* if (currentIndex < items.length - 1) currentIndex++
Advance(i) == IF i < Len(items) - 1 THEN i + 1 ELSE i

\* what a keypress leaves alone; lastKey and before record the key handled
\* and the queue and cursor it was handled on
reviewFrame == UNCHANGED <<proposal, result, mcpPattern, mcpResult, savedFile, quit, pc, applyVars>>
Pressed(key) ==
  /\ pc = "listening"
  /\ lastKey' = key
  /\ before' = [items |-> items, currentIndex |-> currentIndex]

\* mutant: case '1' / '2' without the isMCPGrouping test
ApproveMCPGuardAny == TRUE

\* isMCPGrouping && currentItem.type === 'grouping'
ApproveMCPGuard == isMCPGrouping /\ currentItem.type = "grouping"

\* mutant: '1' / '2' give the choice to every server-style grouping of the queue
ApproveMCPEverywhere(choice) ==
  /\ IF ApproveMCPGuard
     THEN /\ items' = [i \in 1..Len(items) |->
                         IF items[i].type = "grouping" /\ items[i].groupType = "mcp-server"
                         THEN [items[i] EXCEPT !.approved = "true", !.mcpChoice = choice]
                         ELSE items[i]]
          /\ currentIndex' = Advance(currentIndex)
     ELSE UNCHANGED <<items, currentIndex>>
  /\ reviewFrame

\* case '1' / case '2'
ApproveMCP(choice) ==
  /\ IF ApproveMCPGuard
     THEN /\ items' = [items EXCEPT ![currentIndex + 1].approved = "true",
                                    ![currentIndex + 1].mcpChoice = choice]
          /\ currentIndex' = Advance(currentIndex)
     ELSE UNCHANGED <<items, currentIndex>>
  /\ reviewFrame

Key1 == Pressed("1") /\ ApproveMCP("server")
Key2 == Pressed("2") /\ ApproveMCP("individual")

\* mutant: case 'a' without the !isMCPGrouping test
ApproveGuardAny == TRUE

\* !isMCPGrouping
ApproveGuard == ~isMCPGrouping

\* case 'a'
KeyA ==
  /\ Pressed("a")
  /\ IF ApproveGuard
     THEN /\ items' = [items EXCEPT ![currentIndex + 1].approved = "true"]
          /\ currentIndex' = Advance(currentIndex)
     ELSE UNCHANGED <<items, currentIndex>>
  /\ reviewFrame

\* mutant: deny and skip keep the mcpChoice
ClearedChoiceKept(item) == item.mcpChoice

\* if (currentItem.type === 'grouping') mcpChoice = undefined
ClearedChoice(item) == IF item.type = "grouping" THEN "undefined" ELSE item.mcpChoice

\* mutant: deny and skip act on an undecided item only
SetDispositionOnce(value) ==
  /\ items' = IF currentItem.approved = "null"
              THEN [items EXCEPT ![currentIndex + 1].approved = value,
                                 ![currentIndex + 1].mcpChoice = ClearedChoice(currentItem)]
              ELSE items
  /\ currentIndex' = Advance(currentIndex)
  /\ reviewFrame

\* case 'd' / case 's'
SetDisposition(value) ==
  /\ items' = [items EXCEPT ![currentIndex + 1].approved = value,
                            ![currentIndex + 1].mcpChoice = ClearedChoice(currentItem)]
  /\ currentIndex' = Advance(currentIndex)
  /\ reviewFrame

KeyD == Pressed("d") /\ SetDisposition("false")
KeyS == Pressed("s") /\ SetDisposition("null")

\* case 'n'
KeyN ==
  /\ Pressed("n")
  /\ currentIndex' = Advance(currentIndex)
  /\ UNCHANGED items
  /\ reviewFrame

\* mutant: previous wraps around to the last item
RetreatWrapping(i) == IF i > 0 THEN i - 1 ELSE Len(items) - 1

\* if (currentIndex > 0) currentIndex--
Retreat(i) == IF i > 0 THEN i - 1 ELSE i

\* case 'p'
KeyP ==
  /\ Pressed("p")
  /\ currentIndex' = Retreat(currentIndex)
  /\ UNCHANGED items
  /\ reviewFrame

\* a key the switch has no case for
KeyOther ==
  /\ Pressed("other")
  /\ UNCHANGED <<items, currentIndex>>
  /\ reviewFrame

\* case 'q' and Ctrl+C: quit = true; cleanup() removes the listener and runs
\* up to its await writeFile
QuitAndCleanup ==
  /\ quit' = TRUE
  /\ pc' = "saving"
  /\ UNCHANGED <<items, currentIndex, savedFile, proposal, result, mcpPattern, mcpResult,
                 applyVars>>

KeyQ == Pressed("q") /\ QuitAndCleanup
CtrlC == Pressed("ctrl-c") /\ QuitAndCleanup

\* mutant: cleanup writes the file the review started from
WrittenFileStale(its) == savedFile

\* JSON.stringify(reviewFile) after reviewFile.groupings / ungrouped are updated
WrittenFile(its) == UpdatedFile(its)

\* cleanup after the await: the file is written and the process exits
WriteReviewFile ==
  /\ pc = "saving"
  /\ quit
  /\ savedFile' = WrittenFile(items)
  /\ pc' = "exited"
  /\ UNCHANGED <<items, currentIndex, quit, lastKey, before, proposal, result, mcpPattern,
                 mcpResult, applyVars>>

NextReview ==
  \/ Key1 \/ Key2 \/ KeyA \/ KeyD \/ KeyS \/ KeyN \/ KeyP \/ KeyOther
  \/ KeyQ \/ CtrlC \/ WriteReviewFile

SpecReview == InitReview /\ [][NextReview]_vars

(***************************************************************************)
(* review of a file an earlier review session wrote                        *)
(***************************************************************************)

\* the properties of a Grouping / UngroupedCommand the review reads or writes
DataFields == {"groupType", "approved", "mcpChoice"}

\* mutant: null-valued properties are left out of the text as well
stringifyEntryWithoutNull(data) ==
  [f \in {f \in DataFields : data[f] \notin {"undefined", "null"}} |-> data[f]]

\* JSON.stringify leaves out the properties whose value is undefined and
\* writes null as null
stringifyEntry(data) ==
  [f \in {f \in DataFields : data[f] # "undefined"} |-> data[f]]

\* JSON.stringify(reviewFile, null, 2)
stringify(file) ==
  [groupings |-> [i \in 1..Len(file.groupings) |-> stringifyEntry(file.groupings[i])],
   ungrouped |-> [i \in 1..Len(file.ungrouped) |-> stringifyEntry(file.ungrouped[i])]]

\* a property of a parsed object: undefined when the text does not have it
getProperty(object, f) == IF f \in DOMAIN object THEN object[f] ELSE "undefined"

\* JSON.parse(content) and the items built from it
parsedItems(text) ==
  LET itemOf(type, object, index) ==
        [type |-> type, index |-> index,
         groupType |-> getProperty(object, "groupType"),
         approved |-> getProperty(object, "approved"),
         mcpChoice |-> getProperty(object, "mcpChoice")]
  IN [i \in 1..Len(text.groupings) |-> itemOf("grouping", text.groupings[i], i - 1)]
       \o [i \in 1..Len(text.ungrouped) |-> itemOf("ungrouped", text.ungrouped[i], i - 1)]

\* claude-commands review on the file the session that just exited wrote, up
\* to stdin.on('data', onKeypress); before and lastKey still tell the queue
\* and the key the earlier session ended with
ResumeReview ==
  /\ pc = "exited"
  /\ items' = parsedItems(stringify(savedFile))
  /\ currentIndex' = 0
  /\ quit' = FALSE
  /\ pc' = IF items' = <<>> THEN "noItems" ELSE "resumed"
  /\ UNCHANGED <<savedFile, lastKey, before, proposal, result, mcpPattern, mcpResult,
                 applyVars>>

NextResume == NextReview \/ ResumeReview

SpecResume == InitReview /\ [][NextResume]_vars

(***************************************************************************)
(* applyReviewFile (src/src/settings-manager.ts)                           *)
(***************************************************************************)

McpNavigate == McpPlaywright \o <<"_", "_", "n", "a", "v", "i", "g", "a", "t", "e">>
McpClick == McpPlaywright \o <<"_", "_", "c", "l", "i", "c", "k">>

Dispositions == {"true", "false", "null"}
McpChoices == {"server", "individual", "undefined"}

\* a grouping of a review file given to apply
ReviewedGrouping(groupType, approved, mcpChoice) ==
  [pattern |-> IF groupType = "mcp-server" THEN McpPlaywright ELSE NpmRunPattern,
   matches |-> IF groupType = "mcp-server" THEN <<McpNavigate, McpClick>>
                                            ELSE <<NpmRunTestCmd, NpmRunBuildCmd>>,
   groupType |-> groupType, approved |-> approved, mcpChoice |-> mcpChoice]

\* every grouping of the three group types in every disposition and choice,
\* and the groupings a file of several groupings is drawn from
ReviewedGroupings ==
  {ReviewedGrouping(t, a, c) : t \in GroupTypes, a \in Dispositions, c \in McpChoices}
FewReviewedGroupings ==
  {ReviewedGrouping("mcp-server", "true", "server"),
   ReviewedGrouping("mcp-server", "true", "individual"),
   ReviewedGrouping("mcp-server", "true", "undefined"),
   ReviewedGrouping("mcp-server", "false", "undefined"),
   ReviewedGrouping("standard", "true", "undefined"),
   ReviewedGrouping("undefined", "null", "undefined")}

\* an ungrouped command of a review file given to apply
ReviewedUngrouped ==
  {[command |-> c, approved |-> a] : c \in {NpmRunTestCmd, McpNavigate}, a \in Dispositions}

\* ~/.claude/settings.json before apply: absent, or present with an allow list
ExistingSettings ==
  {NoSettings} \cup
  {[exists |-> TRUE, allow |-> a] :
     a \in {<<>>, <<NpmRunPattern>>, <<McpNavigate>>, <<McpPlaywright, NpmRunTestCmd>>}}

InitApply ==
  /\ \E k \in 0..MaxGroupings : \E n \in 0..MaxUngrouped :
     \E gs \in [1..k -> IF k = 1 THEN ReviewedGroupings ELSE FewReviewedGroupings] :
     \E us \in [1..n -> ReviewedUngrouped] :
       reviewFile = [groupings |-> gs, ungrouped |-> us]
  /\ userSettings \in ExistingSettings
  /\ backups = <<>>
  /\ added = NothingAdded
  /\ lastCollectRun = "null"
  /\ history = <<>>
  /\ loadedSettings = NoSettings
  /\ pc = "loaded"
  /\ proposal = [groupings |-> <<>>, ungrouped |-> <<>>]
  /\ result = NotRun
  /\ mcpPattern = <<>>
  /\ mcpResult = NotValidated
  /\ reviewIdle

\* readUserSettings: a missing file reads as an empty allow list
readUserSettings(settings) == IF settings.exists THEN settings.allow ELSE <<>>

\* new Set(userSettings.permissions?.allow || [])
existingAllowedOf(allow) == {allow[i] : i \in 1..Len(allow)}

\* mutant: nothing counts as already allowed
NeverHas(existingAllowed, s) == FALSE

\* existingAllowed.has(s)
Has(existingAllowed, s) == s \in existingAllowed

\* the running state of applyReviewFile: the allow list and the two results
\* if (!existingAllowed.has(s)) { allow.push(s); addedPatterns.push(s) }
AddPattern(acc, existingAllowed, s) ==
  IF Has(existingAllowed, s) THEN acc
  ELSE [acc EXCEPT !.allow = Append(@, s), !.addedPatterns = Append(@, s)]

\* if (!existingAllowed.has(s)) { allow.push(s); addedCommands.push(s) }
AddCommand(acc, existingAllowed, s) ==
  IF Has(existingAllowed, s) THEN acc
  ELSE [acc EXCEPT !.allow = Append(@, s), !.addedCommands = Append(@, s)]

\* for (const command of grouping.matches)
RECURSIVE AddCommands(_, _, _)
AddCommands(acc, existingAllowed, commands) ==
  IF commands = <<>> THEN acc
  ELSE AddCommands(AddCommand(acc, existingAllowed, Head(commands)), existingAllowed,
                   Tail(commands))

\* mutant: an approved mcp-server grouping is added like a standard one
ApplyGroupingIgnoringChoice(acc, existingAllowed, grouping) ==
  IF grouping.approved = "true"
  THEN AddPattern(acc, existingAllowed, grouping.pattern)
  ELSE acc

\* the body of the loop over reviewFile.groupings
ApplyGrouping(acc, existingAllowed, grouping) ==
  IF grouping.approved = "true"
  THEN IF grouping.groupType = "mcp-server"
       THEN IF grouping.mcpChoice = "server"
            THEN AddPattern(acc, existingAllowed, grouping.pattern)
            ELSE IF grouping.mcpChoice = "individual"
            THEN AddCommands(acc, existingAllowed, grouping.matches)
            ELSE acc
       ELSE AddPattern(acc, existingAllowed, grouping.pattern)
  ELSE acc

RECURSIVE ApplyGroupings(_, _, _)
ApplyGroupings(acc, existingAllowed, groupings) ==
  IF groupings = <<>> THEN acc
  ELSE ApplyGroupings(ApplyGrouping(acc, existingAllowed, Head(groupings)), existingAllowed,
                      Tail(groupings))

\* the loop over reviewFile.ungrouped
RECURSIVE ApplyUngrouped(_, _, _)
ApplyUngrouped(acc, existingAllowed, ungrouped) ==
  IF ungrouped = <<>> THEN acc
  ELSE ApplyUngrouped(
         IF Head(ungrouped).approved = "true"
         THEN AddCommand(acc, existingAllowed, Head(ungrouped).command)
         ELSE acc,
         existingAllowed, Tail(ungrouped))

\* the allow list applyReviewFile writes and the value it returns
applyReviewFile(file, settings) ==
  LET allow == readUserSettings(settings)
      existingAllowed == existingAllowedOf(allow)
      start == [allow |-> allow, addedPatterns |-> <<>>, addedCommands |-> <<>>]
  IN ApplyUngrouped(ApplyGroupings(start, existingAllowed, file.groupings),
                    existingAllowed, file.ungrouped)

\* writeUserSettings: the existing file is copied to a backup, then written
writeUserSettings(settings, allow) ==
  /\ backups' = IF settings.exists THEN Append(backups, settings) ELSE backups
  /\ userSettings' = [exists |-> TRUE, allow |-> allow]

\* claude-commands apply <review-file>, run a first and a second time
ApplyReviewFile ==
  /\ pc \in {"loaded", "applied"}
  /\ LET done == applyReviewFile(reviewFile, userSettings)
     IN /\ writeUserSettings(userSettings, done.allow)
        /\ added' = [addedPatterns |-> done.addedPatterns,
                     addedCommands |-> done.addedCommands]
  /\ pc' = IF pc = "loaded" THEN "applied" ELSE "reapplied"
  /\ UNCHANGED <<reviewFile, proposal, result, mcpPattern, mcpResult, reviewVars,
                 lastCollectRun, history, loadedSettings>>

NextApply == ApplyReviewFile

SpecApply == InitApply /\ [][NextApply]_vars

(***************************************************************************)
(* applyCommands (src/src/cli.ts) step by step: read the review file,      *)
(* readUserSettings, the loops of applyReviewFile, writeUserSettings       *)
(* (backup, write), appendToHistory                                        *)
(***************************************************************************)

\* { permissions: { allow: [], deny: [], ask: [] } }
DefaultSettings == [allow |-> <<>>, deny |-> <<>>, ask |-> <<>>]

\* ~/.claude/settings.json: absent, or present with its permission lists;
\* valid tells whether JSON.parse accepts the text of the file
SettingsFiles ==
  {[exists |-> FALSE, valid |-> TRUE, allow |-> <<>>, deny |-> <<>>, ask |-> <<>>]} \cup
  {[exists |-> TRUE, valid |-> v, allow |-> a, deny |-> d, ask |-> <<>>] :
     v \in BOOLEAN,
     a \in {<<>>, <<NpmRunPattern>>, <<McpPlaywright, NpmRunTestCmd>>},
     d \in {<<>>, <<RmCmd>>}}

InitApplyCommand ==
  /\ \E k \in 0..MaxGroupings : \E n \in 0..MaxUngrouped :
     \E gs \in [1..k -> FewReviewedGroupings] : \E us \in [1..n -> ReviewedUngrouped] :
       reviewFile = [groupings |-> gs, ungrouped |-> us]
  /\ userSettings \in SettingsFiles
  /\ backups = <<>>
  /\ added = NothingAdded
  /\ lastCollectRun = "null"
  /\ history = <<>>
  /\ loadedSettings = NoSettings
  /\ pc = "start"
  /\ proposal = [groupings |-> <<>>, ungrouped |-> <<>>]
  /\ result = NotRun
  /\ mcpPattern = <<>>
  /\ mcpResult = NotValidated
  /\ reviewIdle

applyCommandFrame == UNCHANGED <<proposal, result, mcpPattern, mcpResult, reviewVars,
                                 reviewFile, lastCollectRun>>

\* readFile / JSON.parse of the review file; on an error process.exit(1)
ReadReviewFile ==
  /\ pc = "start"
  /\ \E ok \in BOOLEAN : pc' = IF ok THEN "fileRead" ELSE "exit1"
  /\ UNCHANGED <<userSettings, backups, added, history, loadedSettings>>
  /\ applyCommandFrame

\* readUserSettings: a missing file and a file that cannot be parsed both give
\* the default settings
ReadUserSettings ==
  /\ pc = "fileRead"
  /\ loadedSettings' =
       IF userSettings.exists /\ userSettings.valid
       THEN [allow |-> userSettings.allow, deny |-> userSettings.deny, ask |-> userSettings.ask]
       ELSE DefaultSettings
  /\ pc' = "settingsRead"
  /\ UNCHANGED <<userSettings, backups, added, history>>
  /\ applyCommandFrame

\* the two loops of applyReviewFile on the settings object in memory
ComputeAdded ==
  /\ pc = "settingsRead"
  /\ LET existingAllowed == existingAllowedOf(loadedSettings.allow)
         start == [allow |-> loadedSettings.allow, addedPatterns |-> <<>>,
                   addedCommands |-> <<>>]
         done == ApplyUngrouped(ApplyGroupings(start, existingAllowed, reviewFile.groupings),
                                existingAllowed, reviewFile.ungrouped)
     IN /\ loadedSettings' = [loadedSettings EXCEPT !.allow = done.allow]
        /\ added' = [addedPatterns |-> done.addedPatterns,
                     addedCommands |-> done.addedCommands]
  /\ pc' = "computed"
  /\ UNCHANGED <<userSettings, backups, history>>
  /\ applyCommandFrame

\* writeUserSettings: copyFile to the backup when the file exists; an error
\* is rethrown and main exits
BackupSettings ==
  /\ pc = "computed"
  /\ IF userSettings.exists
     THEN \E ok \in BOOLEAN :
            IF ok THEN backups' = Append(backups, userSettings) /\ pc' = "backedUp"
                  ELSE UNCHANGED backups /\ pc' = "failed"
     ELSE UNCHANGED backups /\ pc' = "backedUp"
  /\ UNCHANGED <<userSettings, added, history, loadedSettings>>
  /\ applyCommandFrame

\* mutant: the settings are written whether or not the backup step has run
MayWriteBeforeBackup == pc \in {"computed", "backedUp"}

\* the writeFile of writeUserSettings follows the backup
MayWrite == pc = "backedUp"

\* writeUserSettings: writeFile of the settings object
WriteSettings ==
  /\ MayWrite
  /\ \E ok \in BOOLEAN :
       IF ok THEN /\ userSettings' = [exists |-> TRUE, valid |-> TRUE,
                                      allow |-> loadedSettings.allow,
                                      deny |-> loadedSettings.deny,
                                      ask |-> loadedSettings.ask]
                  /\ pc' = "written"
             ELSE UNCHANGED userSettings /\ pc' = "failed"
  /\ UNCHANGED <<backups, added, history, loadedSettings>>
  /\ applyCommandFrame

\* applyCommands after applyReviewFile: return when nothing was added,
\* appendToHistory otherwise
AppendToHistory ==
  /\ pc = "written"
  /\ IF Len(added.addedPatterns) + Len(added.addedCommands) = 0
     THEN UNCHANGED history
     ELSE history' = Append(history, added)
  /\ pc' = "done"
  /\ UNCHANGED <<userSettings, backups, added, loadedSettings>>
  /\ applyCommandFrame

NextApplyCommand ==
  \/ ReadReviewFile \/ ReadUserSettings \/ ComputeAdded \/ BackupSettings \/ WriteSettings
  \/ AppendToHistory

SpecApplyCommand == InitApplyCommand /\ [][NextApplyCommand]_vars

(***************************************************************************)
(* collect followed by review: groupCommands, the review file written by   *)
(* collectCommands (src/src/cli.ts), interactiveReview on that file        *)
(***************************************************************************)

\* proposals whose groupings are accepted, blocked and rejected in turn
CollectScenarios ==
  LET github == CHOOSE u \in ProposedUngrouped : TRUE
  IN { [groupings |-> <<>>, ungrouped |-> <<>>],
       [groupings |-> <<ProposedGrouping(BunPattern, <<BunInstallCmd, BunxCreateCmd>>),
                        ProposedGrouping(RmRfPattern, <<RmCmd>>)>>,
        ungrouped |-> <<github>>],
       [groupings |-> <<ProposedGrouping(NpmRunPattern, <<NpmRunCmd>>),
                        ProposedGrouping(BunPattern, <<BunInstallCmd>>)>>,
        ungrouped |-> <<github>>],
       [groupings |-> <<ProposedGrouping(BunPattern, <<BunInstallCmd>>),
                        ProposedGrouping(NpmRunPattern, <<NpmRunCmd>>)>>,
        ungrouped |-> <<>>],
       [groupings |-> <<ProposedGrouping(NpmRunPattern, <<NpmRunCmd>>),
                        ProposedGrouping(NpmRunCmd, <<BunInstallCmd>>)>>,
        ungrouped |-> <<github>>],
       [groupings |-> <<ProposedGrouping(RmRfPattern, <<RmCmd, NpmRunCmd>>),
                        ProposedGrouping(NpmRunCmd, <<>>),
                        ProposedGrouping(BunPattern, <<BunxCreateCmd>>)>>,
        ungrouped |-> <<>>] }

InitCollect ==
  /\ proposal \in CollectScenarios
  /\ result = NotRun
  /\ pc = "parsed"
  /\ mcpPattern = <<>>
  /\ mcpResult = NotValidated
  /\ reviewIdle
  /\ applyIdle

\* collectCommands: the review file gets groupingResult.groupings and
\* groupingResult.ungrouped, then state.lastCollectRun is written
WriteCollectedFile ==
  /\ pc = "returned"
  /\ reviewFile' = [groupings |-> result.groupings, ungrouped |-> result.ungrouped]
  /\ lastCollectRun' = "now"
  /\ pc' = "collected"
  /\ UNCHANGED <<proposal, result, mcpPattern, mcpResult, reviewVars, userSettings, backups,
                 added, history, loadedSettings>>

\* the ReviewItems of the entries of one array of the review file; the
\* proposer's groupings carry no groupType and no mcpChoice
ItemsOf(type, entries) ==
  [i \in 1..Len(entries) |->
     [type |-> type, index |-> i - 1, groupType |-> "undefined",
      approved |-> entries[i].approved, mcpChoice |-> "undefined"]]

\* interactiveReview(reviewFilePath) up to stdin.on('data', onKeypress)
StartReview ==
  /\ pc = "collected"
  /\ items' = ItemsOf("grouping", reviewFile.groupings) \o ItemsOf("ungrouped", reviewFile.ungrouped)
  /\ currentIndex' = 0
  /\ quit' = FALSE
  /\ lastKey' = NoKey
  /\ before' = [items |-> items', currentIndex |-> 0]
  /\ savedFile' = UpdatedFile(items')
  /\ pc' = IF items' = <<>> THEN "noItems" ELSE "listening"
  /\ UNCHANGED <<proposal, result, mcpPattern, mcpResult, applyVars>>

NextCollectReview == GroupCommands \/ WriteCollectedFile \/ StartReview \/ NextReview

SpecCollectReview == InitCollect /\ [][NextCollectReview]_vars

(***************************************************************************)
(* collect on a reply that does not parse or lacks properties              *)
(***************************************************************************)

\* the properties GroupingResult, Grouping and UngroupedCommand require of the
\* proposer (approved is set by groupCommands)
ResultFields == {"groupings", "ungrouped", "statistics"}
GroupingFields == {"pattern", "matches", "reasoning", "confidence", "safetyCategory"}
UngroupedFields == {"command", "reasoning", "shouldApprove", "safetyCategory"}

\* an entry of the reply with the properties it has; a property that is not
\* among the keys reads as undefined whatever the record holds for it
RepliedGrouping(pattern, matches, missing) ==
  [pattern |-> pattern, matches |-> matches, reasoning |-> <<"proposed">>,
   confidence |-> "high", safetyCategory |-> "SAFE_TO_WILDCARD", approved |-> "undefined",
   keys |-> GroupingFields \ missing]
RepliedUngrouped(missing) ==
  [command |-> GithubCmd, reasoning |-> <<"proposed">>, shouldApprove |-> TRUE,
   safetyCategory |-> "SAFE_TO_WILDCARD", approved |-> "undefined",
   keys |-> UngroupedFields \ missing]

RepliedGroupings ==
  {RepliedGrouping(p, m, missing) :
     p \in {NpmRunCmd, RmRfPattern}, m \in {<<>>, <<BunInstallCmd>>},
     missing \in {{}, {"pattern"}, {"matches"}, {"reasoning"}}}
RepliedUngroupeds == {RepliedUngrouped({}), RepliedUngrouped({"command"})}

\* the reply of the proposer: text JSON.parse rejects, or an object
Unparseable == [parses |-> FALSE, keys |-> {}, groupings |-> <<>>, ungrouped |-> <<>>]

InitReply ==
  /\ \/ proposal = Unparseable
     \/ \E k \in 0..MaxGroupings : \E n \in 0..MaxUngrouped :
        \E gs \in [1..k -> RepliedGroupings] : \E us \in [1..n -> RepliedUngroupeds] :
        \E lacks \in {{}} \cup {{f} : f \in ResultFields} :
          proposal = [parses |-> TRUE, keys |-> ResultFields \ lacks,
                      groupings |-> gs, ungrouped |-> us]
  /\ result = NotRun
  /\ pc = "replied"
  /\ mcpPattern = <<>>
  /\ mcpResult = NotValidated
  /\ reviewIdle
  /\ applyIdle

\* what makes the try block of groupCommands throw: JSON.parse; reading
\* result.groupings.length, result.ungrouped.map or result.statistics of an
\* object without them; pattern.match of a grouping without pattern;
\* matches.includes / matches.map of a grouping without matches
throws(reply) ==
  \/ ~reply.parses
  \/ reply.keys # ResultFields
  \/ \E i \in 1..Len(reply.groupings) :
       \/ "pattern" \notin reply.groupings[i].keys
       \/ "matches" \notin reply.groupings[i].keys

\* groupCommands from the reply on: the catch block rethrows, collectCommands
\* does not catch, main exits with status 1
GroupCommandsOnReply ==
  /\ pc = "replied"
  /\ IF throws(proposal)
     THEN pc' = "failed" /\ UNCHANGED result
     ELSE pc' = "returned" /\ result' = groupCommands(proposal)
  /\ UNCHANGED <<proposal, mcpPattern, mcpResult, reviewVars, applyVars>>

NextReply == GroupCommandsOnReply \/ WriteCollectedFile

SpecReply == InitReply /\ [][NextReply]_vars

(***************************************************************************)
(* Properties of the validation in groupCommands                           *)
(***************************************************************************)

Returned == pc = "returned"

\* the proposed groupings
Proposed == {proposal.groupings[i] : i \in 1..Len(proposal.groupings)}

\* g is among the groupings groupCommands returned
Accepted(g) ==
  \E j \in 1..Len(result.groupings) :
    /\ result.groupings[j].pattern = g.pattern
    /\ result.groupings[j].matches = g.matches

\* the ungrouped commands groupCommands added to the proposed ones
Synthesized ==
  {result.ungrouped[k] : k \in (Len(proposal.ungrouped) + 1)..Len(result.ungrouped)}

\* the base token of a shell-invocation pattern: the text after the first
\* "Bash(" up to the first ':' or ')'
BaseToken(pattern) ==
  LET rest == SubSeq(pattern, indexOf(pattern, BashOpen) + 5, Len(pattern))
      stops == {k \in 1..Len(rest) : rest[k] \in {":", ")"}}
  IN IF stops = {} THEN rest
     ELSE SubSeq(rest, 1, (CHOOSE k \in stops : \A l \in stops : k <= l) - 1)

DangerousBase(pattern) ==
  includes(pattern, BashOpen) /\ MatchesNeverWildcard(BaseToken(pattern))

\* C1: the grouping "Bash(rm:*)" with matches ["Bash(rm -rf /tmp/x)"] fails
\* validateGrouping, is not returned as a grouping, and its match is returned
\* as an ungrouped command with shouldApprove = false and safetyCategory
\* NEVER_WILDCARD.
C1_RmWildcardBlocked ==
  Returned =>
    \A g \in Proposed :
      (g.pattern = RmPattern /\ g.matches = <<RmCmd>>) =>
        /\ ~validateGrouping(g.pattern)
        /\ ~Accepted(g)
        /\ \E u \in Synthesized :
             /\ u.command = RmCmd
             /\ u.shouldApprove = FALSE
             /\ u.safetyCategory = "NEVER_WILDCARD"

\* C2: the grouping "Bash(npm run:*)" with matches ["Bash(npm run test)",
\* "Bash(npm run build)"] is returned as a grouping and none of its matches
\* is added to the ungrouped commands.
C2_NpmRunAccepted ==
  Returned =>
    \A g \in Proposed :
      (g.pattern = NpmRunPattern /\ g.matches = <<NpmRunTestCmd, NpmRunBuildCmd>>) =>
        /\ Accepted(g)
        /\ \A u \in Synthesized : u.command \notin {NpmRunTestCmd, NpmRunBuildCmd}

\* C3: a proposed grouping whose pattern contains "Bash(" and whose base token
\* matches an entry of NEVER_WILDCARD_PATTERNS is not returned as a grouping,
\* and each of its matches is returned as an ungrouped command with
\* shouldApprove = false, safetyCategory NEVER_WILDCARD and approved = null,
\* also when the grouping fails validateGroupingLogic.
C3_DangerousBaseBlocked ==
  Returned =>
    \A g \in Proposed :
      DangerousBase(g.pattern) =>
        /\ ~Accepted(g)
        /\ \A i \in 1..Len(g.matches) :
             /\ \E u \in Synthesized :
                  /\ u.command = g.matches[i]
                  /\ u.shouldApprove = FALSE
                  /\ u.safetyCategory = "NEVER_WILDCARD"
                  /\ u.approved = "null"
                  /\ includes(u.reasoning, g.pattern)
             /\ \A u \in Synthesized :
                  (u.command = g.matches[i] /\ includes(u.reasoning, g.pattern)) =>
                    (u.shouldApprove = FALSE /\ u.safetyCategory = "NEVER_WILDCARD")

\* C3 witness: a grouping with a dangerous base token that also fails the logic
\* check has been blocked and its match returned as NEVER_WILDCARD
C3_Witness ==
  /\ Returned
  /\ \E g \in Proposed :
       /\ g.pattern = RmRfPattern
       /\ g.matches = <<BunInstallCmd>>
       /\ ~validateGroupingLogic(g).valid
       /\ ~Accepted(g)
       /\ \E u \in Synthesized : u.command = BunInstallCmd /\ u.shouldApprove = FALSE

\* C4: a proposed grouping whose pattern is one of its own matches is not among
\* the returned groupings.
C4_SelfContainedRejected ==
  Returned =>
    \A g \in Proposed : arrayIncludes(g.matches, g.pattern) => ~Accepted(g)

C4_Witness ==
  /\ Returned
  /\ \E g \in Proposed :
       /\ g.pattern = NpmRunCmd
       /\ g.matches = <<NpmRunCmd>>
       /\ ~Accepted(g)
       /\ \E u \in Synthesized : u.command = NpmRunCmd

\* C5: a proposed grouping whose pattern starts with "WebFetch(domain:" and
\* contains '*' is not among the returned groupings, whatever its matches.
C5_WebFetchWildcardRejected ==
  Returned =>
    \A g \in Proposed :
      (startsWith(g.pattern, WebFetchDomainPrefix) /\ includes(g.pattern, <<"*">>)) =>
        ~Accepted(g)

C5_Witness ==
  /\ Returned
  /\ \E g \in Proposed :
       /\ g.pattern = WebFetchAnyPattern
       /\ g.matches = <<>>
       /\ ~Accepted(g)
       /\ result.groupings = <<>>

C7_LogicRejectionRecommended ==
  Returned =>
    \A g \in Proposed :
      /\ (validateGrouping(g.pattern) /\ ~validateGroupingLogic(g).valid) =>
           /\ ~Accepted(g)
           /\ \A i \in 1..Len(g.matches) :
                [command |-> g.matches[i],
                 reasoning |-> <<"Rejected grouping: ">> \o validateGroupingLogic(g).reason,
                 shouldApprove |-> TRUE,
                 safetyCategory |-> "SAFE_TO_WILDCARD",
                 approved |-> "null"] \in Synthesized
      /\ (g.pattern = BunPattern /\ g.matches = <<BunInstallCmd, BunxCreateCmd>>) =>
           /\ ~Accepted(g)
           /\ \A c \in {BunInstallCmd, BunxCreateCmd} :
                \E u \in Synthesized : u.command = c /\ u.shouldApprove = TRUE

C7_Witness ==
  /\ Returned
  /\ \E g \in Proposed :
       /\ g.pattern = BunPattern
       /\ g.matches = <<BunInstallCmd, BunxCreateCmd>>
       /\ ~Accepted(g)
       /\ Len(result.ungrouped) = Len(proposal.ungrouped) + 2
       /\ \A u \in Synthesized : u.shouldApprove = TRUE

\* C8: a proposed grouping whose pattern starts with "mcp__" and contains '*' or
\* is neither mcp__server nor mcp__server__command is not among the returned
\* groupings.
C8_McpWildcardRejected ==
  Returned =>
    \A g \in Proposed :
      (/\ startsWith(g.pattern, McpPrefix)
       /\ \/ includes(g.pattern, <<"*">>)
          \/ ~(mcpServerPattern(g.pattern) \/ mcpCommandPattern(g.pattern))) =>
        ~Accepted(g)

(***************************************************************************)
(* Properties of validateMCPGrouping                                       *)
(***************************************************************************)

\* the characters a-z, A-Z, 0-9, '-' and '_'
IdentifierChars == LowerCase \cup UpperCase \cup Digits \cup {"-", "_"}

\* C9: validateMCPGrouping(p) is valid for every p that does not start with
\* "mcp__"; for p starting with "mcp__" it is valid exactly when p has no '*'
\* and is "mcp__" followed by one or more identifier characters; the patterns
\* of testPatterns get their expected verdicts.
C9_McpValidity ==
  pc = "validated" =>
    /\ mcpResult.valid =
         (\/ ~startsWith(mcpPattern, McpPrefix)
          \/ /\ \A k \in 1..Len(mcpPattern) : mcpPattern[k] # "*"
             /\ Len(mcpPattern) > 5
             /\ \A k \in 6..Len(mcpPattern) : mcpPattern[k] \in IdentifierChars)
    /\ \A t \in 1..Len(testPatterns) :
         mcpPattern = testPatterns[t].pattern => mcpResult.valid = testPatterns[t].expected

C9_Witness ==
  /\ pc = "validated"
  /\ mcpPattern = <<"m", "c", "p", "_", "_", "a", "-", "_">>
  /\ mcpResult.valid

(***************************************************************************)
(* Properties of the review state machine                                  *)
(***************************************************************************)

\* C10: with a queue of N >= 1 items the cursor starts at 0, stays within
\* 0..N-1 under every key, and moves by at most one position per key.
C10_CursorInRange ==
  /\ currentIndex = 0
  /\ [](items # <<>> => (0 <= currentIndex /\ currentIndex <= Len(items) - 1))
  /\ [][currentIndex' - currentIndex \in {-1, 0, 1}]_vars

\* C10 witness: the last item of a queue has been decided and the cursor is
\* still on it
C10_Witness ==
  /\ Len(items) >= 2
  /\ currentIndex = Len(items) - 1
  /\ items[Len(items)].approved = "false"
  /\ pc = "listening"

\* the item the last key was handled on, and the cursor one past it unless it
\* was the last item
itemBefore == before.items[before.currentIndex + 1]
cursorAfterStep ==
  IF before.currentIndex = Len(before.items) - 1
  THEN before.currentIndex
  ELSE before.currentIndex + 1
onServerStyle == itemBefore.type = "grouping" /\ itemBefore.groupType = "mcp-server"
untouched == items = before.items /\ currentIndex = before.currentIndex

\* the review file the session started from: every entry undecided, no choice
FileUntouched ==
  \A f \in {"groupings", "ungrouped"} : \A i \in 1..Len(savedFile[f]) :
    savedFile[f][i].approved = "null" /\ savedFile[f][i].mcpChoice = "undefined"

\* C11: 'a' on a server-style grouping changes no item and not the cursor; on
\* every other item it sets approved = true on that item only and moves the
\* cursor one forward unless it was on the last item.
C11_ApproveRejectedOnServerStyle ==
  lastKey = "a" =>
    IF onServerStyle
    THEN untouched
    ELSE /\ items = [before.items EXCEPT ![before.currentIndex + 1].approved = "true"]
         /\ currentIndex = cursorAfterStep

\* C11 witness: 'a' was pressed on an undecided server-style grouping that is
\* not the last item, and nothing moved
C11_Witness ==
  /\ lastKey = "a"
  /\ onServerStyle
  /\ Len(items) >= 2
  /\ currentIndex = 0
  /\ items[1].approved = "null"
  /\ items[1].mcpChoice = "undefined"

\* C12: '1' and '2' on a server-style grouping set approved = true and the
\* choice "server" / "individual" on that item only and move the cursor one
\* forward unless it was on the last item; on any other item they change no
\* item and not the cursor.
C12_ServerChoiceOnlyOnServerStyle ==
  lastKey \in {"1", "2"} =>
    IF onServerStyle
    THEN /\ items = [before.items EXCEPT
                       ![before.currentIndex + 1].approved = "true",
                       ![before.currentIndex + 1].mcpChoice =
                          IF lastKey = "1" THEN "server" ELSE "individual"]
         /\ currentIndex = cursorAfterStep
    ELSE untouched

\* C12 witness: '2' overwrote the choice "server" of a server-style grouping
C12_Witness ==
  /\ lastKey = "2"
  /\ onServerStyle
  /\ itemBefore.mcpChoice = "server"
  /\ items[before.currentIndex + 1].mcpChoice = "individual"
  /\ items[before.currentIndex + 1].approved = "true"

\* C13: 'd' / 's' set approved = false / null on the item at the cursor whatever
\* it was, clear the choice of a grouping, change no other item and move the
\* cursor one forward unless it was on the last item.
C13_DenySkipOverwrite ==
  lastKey \in {"d", "s"} =>
    /\ items = [before.items EXCEPT
                  ![before.currentIndex + 1].approved =
                     IF lastKey = "d" THEN "false" ELSE "null",
                  ![before.currentIndex + 1].mcpChoice =
                     IF itemBefore.type = "grouping" THEN "undefined" ELSE @]
    /\ currentIndex = cursorAfterStep

\* C13 witness: 's' made an approved server-style grouping with a choice
\* undecided again
C13_Witness ==
  /\ lastKey = "s"
  /\ itemBefore.approved = "true"
  /\ itemBefore.mcpChoice = "server"
  /\ items[before.currentIndex + 1].approved = "null"
  /\ items[before.currentIndex + 1].mcpChoice = "undefined"

\* C14: from a queue of undecided items without choice, in every reachable
\* state an item has a choice exactly when it is an approved server-style
\* grouping.
C14_ChoiceIffApprovedServerStyle ==
  \A i \in 1..Len(items) :
    (items[i].mcpChoice # "undefined") <=>
      (/\ items[i].type = "grouping"
       /\ items[i].groupType = "mcp-server"
       /\ items[i].approved = "true")

\* C14 witness: an approved server-style grouping with a choice next to a
\* denied server-style grouping that had a choice and an approved standard
\* grouping without one
C14_Witness ==
  /\ Len(items) = 3
  /\ items[1].groupType = "mcp-server" /\ items[1].approved = "true"
  /\ items[1].mcpChoice = "individual"
  /\ items[2].groupType = "standard" /\ items[2].approved = "true"
  /\ items[2].mcpChoice = "undefined"
  /\ items[3].groupType = "mcp-server" /\ items[3].approved = "false"
  /\ lastKey = "d" /\ itemBefore.mcpChoice = "server"

\* C15: 'n' / 'p' change no item; the cursor moves by +1 / -1, and stays where
\* it is at the last / first item; the session keeps listening and nothing is
\* written.
C15_NextPreviousOnlyCursor ==
  lastKey \in {"n", "p"} =>
    /\ items = before.items
    /\ pc = "listening" /\ ~quit /\ FileUntouched
    /\ lastKey = "n" =>
         currentIndex = IF before.currentIndex = Len(items) - 1
                        THEN before.currentIndex ELSE before.currentIndex + 1
    /\ lastKey = "p" =>
         currentIndex = IF before.currentIndex = 0
                        THEN before.currentIndex ELSE before.currentIndex - 1

\* C15 witness: 'p' was pressed on the first item of a longer queue
C15_Witness ==
  /\ lastKey = "p"
  /\ Len(items) >= 2
  /\ before.currentIndex = 0
  /\ currentIndex = 0
  /\ items[1].approved = "true"

C17_CancelDoesNotPersist ==
  lastKey = "ctrl-c" => FileUntouched

(***************************************************************************)
(* Properties of applyReviewFile                                           *)
(***************************************************************************)

elementsOf(seq) == {seq[i] : i \in 1..Len(seq)}
approvedGroupings ==
  {g \in elementsOf(reviewFile.groupings) : g.approved = "true"}
approvedUngrouped ==
  {u \in elementsOf(reviewFile.ungrouped) : u.approved = "true"}

\* the allow list the first run of apply found
allowBeforeFirstRun == IF backups = <<>> THEN <<>> ELSE backups[1].allow

\* C18: after apply the allow list is the old list followed by the added
\* patterns and commands; an added pattern is the pattern of an approved
\* grouping that is not server-style or has the choice "server"; an added
\* command is a match of an approved server-style grouping with the choice
\* "individual" or the command of an approved ungrouped entry; each such
\* contribution is in the allow list afterwards.
C18_OnlyApprovedContribute ==
  pc = "applied" =>
    LET old == allowBeforeFirstRun
        new == SubSeq(userSettings.allow, Len(old) + 1, Len(userSettings.allow))
        offersPattern(g) == g.groupType # "mcp-server" \/ g.mcpChoice = "server"
        offersMatches(g) == g.groupType = "mcp-server" /\ g.mcpChoice = "individual"
    IN /\ Len(userSettings.allow) >= Len(old)
       /\ SubSeq(userSettings.allow, 1, Len(old)) = old
       /\ Len(new) = Len(added.addedPatterns) + Len(added.addedCommands)
       /\ elementsOf(new) = elementsOf(added.addedPatterns) \cup elementsOf(added.addedCommands)
       /\ \A s \in elementsOf(added.addedPatterns) :
            \E g \in approvedGroupings : g.pattern = s /\ offersPattern(g)
       /\ \A s \in elementsOf(added.addedCommands) :
            \/ \E g \in approvedGroupings : offersMatches(g) /\ s \in elementsOf(g.matches)
            \/ \E u \in approvedUngrouped : u.command = s
       /\ \A g \in approvedGroupings :
            /\ offersPattern(g) => g.pattern \in elementsOf(userSettings.allow)
            /\ offersMatches(g) => elementsOf(g.matches) \subseteq elementsOf(userSettings.allow)
       /\ \A u \in approvedUngrouped : u.command \in elementsOf(userSettings.allow)

\* C18 witness: a whole-server approval added the server pattern and none of
\* the grouping's commands
C18_Witness ==
  /\ pc = "applied"
  /\ \E g \in approvedGroupings :
       /\ g.groupType = "mcp-server" /\ g.mcpChoice = "server"
       /\ g.matches # <<>>
       /\ added.addedPatterns = <<g.pattern>>
       /\ elementsOf(g.matches) \cap elementsOf(userSettings.allow) = {}
  /\ added.addedCommands = <<>>

\* C19: a second apply of the same review file against the settings the first
\* one wrote adds no pattern and no command and writes the same allow list.
C19_ApplyIdempotent ==
  pc = "reapplied" =>
    /\ added = NothingAdded
    /\ userSettings.allow = backups[Len(backups)].allow

\* C19 witness: the first run extended an existing allow list and the second
\* run added nothing
C19_Witness ==
  /\ pc = "reapplied"
  /\ Len(backups) = 2
  /\ Len(backups[2].allow) > Len(backups[1].allow) + 1
  /\ added = NothingAdded

(***************************************************************************)
(* Order of the review queue                                               *)
(***************************************************************************)

\* the elements of seq at the indices in K, in the order of seq
RECURSIVE SubsequenceAt(_, _, _)
SubsequenceAt(seq, K, i) ==
  IF i > Len(seq) THEN <<>>
  ELSE (IF i \in K THEN <<seq[i]>> ELSE <<>>) \o SubsequenceAt(seq, K, i + 1)

\* the matches of the groupings, one after the other
RECURSIVE MatchesInOrder(_)
MatchesInOrder(gs) ==
  IF gs = <<>> THEN <<>> ELSE Head(gs).matches \o MatchesInOrder(Tail(gs))

namesOf(gs) == [i \in 1..Len(gs) |-> <<gs[i].pattern, gs[i].matches>>]
commandsOf(us) == [i \in 1..Len(us) |-> us[i].command]
positionsOf(entries) == [i \in 1..Len(entries) |-> entries[i].index]

\* C20: the groupings groupCommands returns are proposed groupings in proposal
\* order; the ungrouped commands it returns are the proposed ones followed by
\* the matches of the other proposed groupings, grouping by grouping and match
\* by match; the review file and the review queue keep that order (groupings,
\* then ungrouped commands) under every key, and so does the file the review
\* writes.
C20_StableOrder ==
  LET P == proposal.groupings
      all == 1..Len(P)
  IN /\ pc # "parsed" =>
          \E K \in SUBSET all :
            /\ namesOf(result.groupings) = namesOf(SubsequenceAt(P, K, 1))
            /\ commandsOf(result.ungrouped) =
                 commandsOf(proposal.ungrouped)
                   \o MatchesInOrder(SubsequenceAt(P, all \ K, 1))
     /\ pc \notin {"parsed", "returned"} =>
          /\ reviewFile.groupings = result.groupings
          /\ reviewFile.ungrouped = result.ungrouped
     /\ pc \in {"listening", "saving", "exited"} =>
          /\ ItemsOfType(items, "grouping") \o ItemsOfType(items, "ungrouped") = items
          /\ positionsOf(ItemsOfType(items, "grouping")) =
               [i \in 1..Len(reviewFile.groupings) |-> i - 1]
          /\ positionsOf(ItemsOfType(items, "ungrouped")) =
               [i \in 1..Len(reviewFile.ungrouped) |-> i - 1]
          /\ positionsOf(savedFile.groupings) = [i \in 1..Len(reviewFile.groupings) |-> i - 1]
          /\ positionsOf(savedFile.ungrouped) = [i \in 1..Len(reviewFile.ungrouped) |-> i - 1]

\* C20 witness: a rejected and a blocked grouping were re-emitted after the
\* proposed ungrouped command, and the reviewed queue has been written
C20_Witness ==
  /\ pc = "exited"
  /\ Len(proposal.groupings) = 2
  /\ result.groupings = <<>>
  /\ commandsOf(reviewFile.ungrouped) = <<GithubCmd, BunInstallCmd, BunxCreateCmd, RmCmd>>
  /\ savedFile.ungrouped[2].approved = "true"
  /\ savedFile.ungrouped[4].approved = "false"

(***************************************************************************)
(* Further properties of the validation in groupCommands                   *)
(***************************************************************************)

\* the indices of the proposed groupings groupCommands did not return
rejectedIndices == {i \in 1..Len(proposal.groupings) : ~Accepted(proposal.groupings[i])}

RECURSIVE SumOfMatchCounts(_)
SumOfMatchCounts(I) ==
  IF I = {} THEN 0
  ELSE LET i == CHOOSE j \in I : TRUE
       IN Len(proposal.groupings[i].matches) + SumOfMatchCounts(I \ {i})

\* C22: every returned grouping is a proposed grouping with approved set to
\* null and nothing else changed; every returned ungrouped command has
\* approved = null, and a proposed one is otherwise unchanged.
C22_AcceptedUnchangedButUndecided ==
  Returned =>
    /\ \A j \in 1..Len(result.groupings) :
         \E i \in 1..Len(proposal.groupings) :
           result.groupings[j] = [proposal.groupings[i] EXCEPT !.approved = "null"]
    /\ \A k \in 1..Len(result.ungrouped) : result.ungrouped[k].approved = "null"
    /\ \A k \in 1..Len(proposal.ungrouped) :
         result.ungrouped[k] = [proposal.ungrouped[k] EXCEPT !.approved = "null"]

\* C22 witness: a grouping proposed without approved and an ungrouped command
\* proposed with approved = true are returned with approved = null
C22_Witness ==
  /\ Returned
  /\ Len(result.groupings) = 1
  /\ proposal.groupings[1].approved = "undefined"
  /\ result.groupings[1].approved = "null"
  /\ result.groupings[1].pattern = NpmRunPattern
  /\ Len(proposal.ungrouped) = 1
  /\ proposal.ungrouped[1].approved = "true"
  /\ result.ungrouped[1].approved = "null"

\* C25: the returned groupings and the rejected groupings make up the proposed
\* groupings; every proposed ungrouped command is returned at its place; every
\* match of a rejected grouping is returned as an ungrouped command; the number
\* of returned ungrouped commands is the number proposed plus the numbers of
\* matches of the rejected groupings.
C25_NothingDropped ==
  Returned =>
    /\ Len(result.groupings) + Cardinality(rejectedIndices) = Len(proposal.groupings)
    /\ Len(result.ungrouped) = Len(proposal.ungrouped) + SumOfMatchCounts(rejectedIndices)
    /\ \A k \in 1..Len(proposal.ungrouped) :
         result.ungrouped[k].command = proposal.ungrouped[k].command
    /\ \A i \in rejectedIndices : \A m \in 1..Len(proposal.groupings[i].matches) :
         \E u \in Synthesized : u.command = proposal.groupings[i].matches[m]

\* C25 witness: a blocked grouping of two matches next to a proposed ungrouped
\* command gives three ungrouped commands
C25_Witness ==
  /\ Returned
  /\ Len(proposal.groupings) = 1
  /\ proposal.groupings[1].pattern = RmRfPattern
  /\ Len(proposal.groupings[1].matches) = 2
  /\ Len(proposal.ungrouped) = 1
  /\ result.groupings = <<>>
  /\ Len(result.ungrouped) = 3

\* C26: every returned grouping whose pattern starts with "Bash(" and includes
\* ":*" has only matches that start with the text before ":*" and whose
\* command token is the command token of the pattern.
C26_AcceptedWildcardConsistent ==
  Returned =>
    \A j \in 1..Len(result.groupings) :
      LET g == result.groupings[j]
      IN (startsWith(g.pattern, BashOpen) /\ includes(g.pattern, WildcardSuffix)) =>
           \A m \in 1..Len(g.matches) :
             /\ startsWith(g.matches[m], splitFirst(g.pattern, WildcardSuffix))
             /\ BashCommandMatch(g.matches[m]) = BashCommandMatch(g.pattern)

\* C29: no ungrouped command made from a rejected grouping whose text matches
\* an entry of NEVER_WILDCARD_PATTERNS has shouldApprove = true or the
\* safetyCategory SAFE_TO_WILDCARD.
C29_DangerousNeverRecommended ==
  Returned =>
    \A u \in Synthesized :
      MatchesNeverWildcard(u.command) =>
        /\ u.shouldApprove = FALSE
        /\ u.safetyCategory # "SAFE_TO_WILDCARD"

(***************************************************************************)
(* Frame of the review keys; duplicates in apply                           *)
(***************************************************************************)

\* C27: after 'a', '1', '2', 'd' or 's' the queue has as many items as before
\* and every item other than the one the cursor was on is what it was; after
\* a key without a case the items and the cursor are what they were.
C27_OnlyItemAtCursorChanges ==
  /\ lastKey \in {"a", "1", "2", "d", "s"} =>
       /\ Len(items) = Len(before.items)
       /\ \A i \in 1..Len(items) : i # before.currentIndex + 1 => items[i] = before.items[i]
       /\ items[before.currentIndex + 1].type = itemBefore.type
       /\ items[before.currentIndex + 1].index = itemBefore.index
       /\ items[before.currentIndex + 1].groupType = itemBefore.groupType
  /\ lastKey = "other" => untouched /\ pc = "listening" /\ ~quit

\* C27 witness: '1' decided the second of three server-style groupings and the
\* other two are still undecided
C27_Witness ==
  /\ lastKey = "1"
  /\ Len(items) = 3
  /\ before.currentIndex = 1
  /\ \A i \in 1..3 : items[i].groupType = "mcp-server"
  /\ items[2].mcpChoice = "server"
  /\ items[1].approved = "null" /\ items[3].approved = "null"

noRepeats(seq) == \A i, j \in 1..Len(seq) : seq[i] = seq[j] => i = j

\* C28: when the allow list the run found has no string twice, the allow list
\* it writes has no string twice and neither addedPatterns nor addedCommands
\* repeats a string.
C28_NoDuplicateAppended ==
  (pc = "applied" /\ noRepeats(allowBeforeFirstRun)) =>
    /\ noRepeats(userSettings.allow)
    /\ noRepeats(added.addedPatterns)
    /\ noRepeats(added.addedCommands)

(***************************************************************************)
(* Round trip of the review file                                           *)
(***************************************************************************)

undecidedQueue ==
  \A i \in 1..Len(items) : items[i].approved = "null" /\ items[i].mcpChoice = "undefined"

\* C21: the queue a review session loads from the file the previous session
\* wrote is the queue that session ended with: the same items in the same
\* order with the same approved and mcpChoice; a session that ends with every
\* item as it was loaded writes the file it loaded.
C21_ReviewFileRoundTrip ==
  /\ pc = "resumed" => items = before.items
  /\ (pc = "exited" /\ undecidedQueue) =>
       /\ FileUntouched
       /\ savedFile = UpdatedFile(items)

\* C21 witness: a queue with a whole-server approval, a denied and an undecided
\* item has been written and loaded again
C21_Witness ==
  /\ pc = "resumed"
  /\ Len(items) = 3
  /\ items[1].approved = "true" /\ items[1].mcpChoice = "server"
  /\ items[2].approved = "false" /\ items[2].mcpChoice = "undefined"
  /\ items[3].approved = "null"
  /\ lastKey = "q"

(***************************************************************************)
(* Malformed replies                                                       *)
(***************************************************************************)

malformed(reply) ==
  \/ ~reply.parses
  \/ reply.keys # ResultFields
  \/ \E i \in 1..Len(reply.groupings) : reply.groupings[i].keys # GroupingFields
  \/ \E i \in 1..Len(reply.ungrouped) : reply.ungrouped[i].keys # UngroupedFields

\* C23: for a reply that does not parse or in which the object, a grouping or
\* an ungrouped command lacks a required property, groupCommands returns no
\* result, no review file is written and lastCollectRun is not set.
C23_MalformedReplyIsFatal ==
  malformed(proposal) =>
    /\ pc \in {"replied", "failed"}
    /\ result = NotRun
    /\ reviewFile = NoFile
    /\ lastCollectRun = "null"

(***************************************************************************)
(* Order and frame of the apply command                                    *)
(***************************************************************************)

\* the steps of apply, each with the steps that may follow it
StepOrder ==
  {<<"start", "fileRead">>, <<"start", "exit1">>, <<"fileRead", "settingsRead">>,
   <<"settingsRead", "computed">>, <<"computed", "backedUp">>, <<"computed", "failed">>,
   <<"backedUp", "written">>, <<"backedUp", "failed">>, <<"written", "done">>}

\* C24: apply reads the review file, reads the settings and computes what is
\* added, backs the settings file up, writes it, then appends to the history
\* (when something was added); an existing settings file changes only in the
\* write step and only when the last backup is a copy of it; the history
\* changes only after the settings have been written.
C24_ApplyStepsInOrder ==
  /\ [][(<<pc, pc'>> \in StepOrder)]_vars
  /\ [][(userSettings' # userSettings) =>
          /\ pc = "backedUp" /\ pc' = "written"
          /\ userSettings.exists =>
               (backups # <<>> /\ backups[Len(backups)] = userSettings)]_vars
  /\ [][(history' # history) =>
          /\ pc = "written"
          /\ userSettings.allow = loadedSettings.allow]_vars
  /\ [][(backups' # backups) => (pc = "computed" /\ added' = added)]_vars

\* C24 witness: a run that added something has ended with one backup, a longer
\* allow list and a history entry
C24_Witness ==
  /\ pc = "done"
  /\ Len(backups) = 1
  /\ backups[1].valid
  /\ Len(userSettings.allow) > Len(backups[1].allow)
  /\ Len(history) = 1

\* C30: the settings file apply has written holds the allow list it held
\* before, entry by entry, in front of the added entries, and the deny and ask
\* lists it held before.
C30_ApplyOnlyAppends ==
  pc \in {"written", "done"} =>
    LET old == IF backups = <<>> THEN DefaultSettings ELSE backups[1]
    IN /\ Len(userSettings.allow) >= Len(old.allow)
       /\ SubSeq(userSettings.allow, 1, Len(old.allow)) = old.allow
       /\ userSettings.deny = old.deny
       /\ userSettings.ask = old.ask

====
